---- MODULE Spec2Model ----
(***************************************************************************)
(* Model of src/main.py, the ICD-10 crawler: get_root_codes, the recursive *)
(* walker process_icd_code, fetch_icd_data and save_icd_data.              *)
(*                                                                         *)
(* Codes, URLs and file names are sequences of one-character strings, so   *)
(* that split('/'), unquote and replace are computed, not assumed.         *)
(* The Python call stack of process_icd_code is the variable stack; one    *)
(* action is one statement of the walker (fetch, save, recursive call, end *)
(* of the child loop, sleep) or of main.                                   *)
(***************************************************************************)
EXTENDS Integers, Sequences, FiniteSets, TLC

VARIABLES
    catalog,    \* the remote tree: code -> node served for it (fixed per run)
    pc,         \* position of main: "get_root_codes", "loop", "done", "crashed"
    rootCodes,  \* root_codes of main (line 151)
    rootIdx,    \* index of the next element of `for code in root_codes`
    stack,      \* frames of process_icd_code, innermost last
    dirExists,  \* os.path.exists(output_dir)
    files,      \* the files of output_dir: file name -> content
    events,     \* history: every fetch, save and sleep, in program order
    invs,       \* history: invs[n] is the n-th call of process_icd_code
    faults,     \* number of injected network / filesystem failures so far
    crashOp,    \* the operation whose exception ended the process, or "none"
    token,      \* config.token, the credential load_config resolved
    posts,      \* number of token-exchange requests sent by load_config
    cfgSeen,    \* history: the command line and config file of a failed load_config
    run,        \* number of the current execution of the script, from 1
    prevEvents, \* history: the events of the previous execution
    prevFiles   \* history: the files as the previous execution left them

vars == <<catalog, pc, rootCodes, rootIdx, stack, dirExists, files, events,
          invs, faults, crashOp, token, posts, cfgSeen, run, prevEvents, prevFiles>>

\* what load_config resolved, and the earlier executions: the walker and
\* main change none of it
startVars == <<token, posts, cfgSeen, run, prevEvents, prevFiles>>

\* At most this many injected failures (transport, HTTP status, bad body,
\* makedirs, open, write) in one run.
MaxFaults == 2

\* The interpreter's recursion limit, counted in nested calls of
\* process_icd_code (1000 frames by default; scaled down)
MaxDepth == 4

----------------------------------------------------------------------------
(* Strings as sequences of characters *)

EmptyCode == <<>>

\* s.split('/')[-1]: the part of s after its last '/', all of s if it has none
RECURSIVE LastSegment(_)
LastSegment(s) ==
    IF s = <<>> THEN <<>>
    ELSE IF s[Len(s)] = "/" THEN <<>>
    ELSE Append(LastSegment(SubSeq(s, 1, Len(s) - 1)), s[Len(s)])

\* The percent escapes used by the modelled catalogs: two hex digits -> character
HexTable == [e \in {<<"2", "E">>, <<"2", "F">>, <<"2", "5">>} |->
               IF e = <<"2", "E">> THEN "."
               ELSE IF e = <<"2", "F">> THEN "/" ELSE "%"]

\* urllib.parse.unquote: every %XX escape replaced by its character, an
\* incomplete or unknown escape left as it is
RECURSIVE unquote(_)
unquote(s) ==
    IF s = <<>> THEN <<>>
    ELSE IF s[1] = "%" /\ Len(s) >= 3 /\ SubSeq(s, 2, 3) \in DOMAIN HexTable
         THEN <<HexTable[SubSeq(s, 2, 3)]>> \o unquote(SubSeq(s, 4, Len(s)))
    ELSE <<s[1]>> \o unquote(SubSeq(s, 2, Len(s)))

\* A wrong decoding: the final path segment taken without percent-decoding
ChildCode_NoUnquote(child_url) == LastSegment(child_url)

\* unquote(child_url.split('/')[-1])
ChildCode(child_url) == unquote(LastSegment(child_url))

\* [ChildCode(url) for url in urls]
DecodeAll(urls) == [i \in 1..Len(urls) |-> ChildCode(urls[i])]

----------------------------------------------------------------------------
(* The remote catalog *)

\* What the remote holds for one code: whether the object has a 'child'
\* field, the codes it lists there, and whether it has any other field.
Node(hasChild, kids, other) == [hasChild |-> hasChild, kids |-> kids, other |-> other]
Leaf == Node(FALSE, <<>>, TRUE)
EmptyObject == Node(FALSE, <<>>, FALSE)

\* The remote's percent-encoding of a code inside a child URL
RECURSIVE Quote(_)
Quote(c) ==
    IF c = <<>> THEN <<>>
    ELSE (IF c[1] = "/" THEN <<"%", "2", "F">>
          ELSE IF c[1] = "%" THEN <<"%", "2", "5">>
          ELSE IF c[1] = "." THEN <<"%", "2", "E">>
          ELSE <<c[1]>>) \o Quote(SubSeq(c, 2, Len(c)))

\* Child reference for a code: https://host/path/<code>
UrlBase == <<"h", ":", "/", "/", "w", "/", "p", "/">>
RefOf(c) == UrlBase \o Quote(c)
\* The same reference with '.' left unescaped, as in ".../A.1"
RECURSIVE QuotePlain(_)
QuotePlain(c) ==
    IF c = <<>> THEN <<>>
    ELSE (IF c[1] = "/" THEN <<"%", "2", "F">> ELSE <<c[1]>>)
         \o QuotePlain(SubSeq(c, 2, Len(c)))
PlainRefOf(c) == UrlBase \o QuotePlain(c)

\* Python values of `data`: None, or the decoded JSON object
None == [kind |-> "none", hasChild |-> FALSE, child |-> <<>>, other |-> FALSE]
Dict(hasChild, child, other) ==
    [kind |-> "dict", hasChild |-> hasChild, child |-> child, other |-> other]

\* The JSON object the remote serves for a node; plain says how it escapes
Body(node, plain) ==
    Dict(node.hasChild,
         [i \in 1..Len(node.kids) |->
             IF plain THEN PlainRefOf(node.kids[i]) ELSE RefOf(node.kids[i])],
         node.other)

cR == <<"R">>
cA == <<"A">>
cB == <<"B">>
cA1 == <<"A", "1">>
cA2 == <<"A", "2">>
cAdot1 == <<"A", ".", "1">>
cAslash1 == <<"A", "/", "1">>
cI == <<"I">>
cII == <<"I", "I">>
cP == <<"P">>
cQ == <<"Q">>
cS == <<"S">>
cT == <<"T">>

\* root -> R -> {A, B}, A -> {A1, A2}
TreeCatalog ==
    [plain |-> TRUE,
     nodes |-> (EmptyCode :> Node(TRUE, <<cR>>, TRUE)) @@
               (cR :> Node(TRUE, <<cA, cB>>, TRUE)) @@
               (cA :> Node(TRUE, <<cA1, cA2>>, TRUE)) @@
               (cA1 :> Leaf) @@ (cA2 :> Leaf) @@ (cB :> Leaf)]

\* root {"child": [A, B]}, A {"child": [A.1]}, A.1 {}, B {}
EndToEndCatalog ==
    [plain |-> TRUE,
     nodes |-> (EmptyCode :> Node(TRUE, <<cA, cB>>, FALSE)) @@
               (cA :> Node(TRUE, <<cAdot1>>, FALSE)) @@
               (cAdot1 :> EmptyObject) @@ (cB :> EmptyObject)]

\* a root listing without a 'child' field; chapters I and II exist
NoListingCatalog ==
    [plain |-> TRUE,
     nodes |-> (EmptyCode :> Leaf) @@
               (cI :> Node(TRUE, <<cA>>, TRUE)) @@ (cA :> Leaf) @@ (cII :> Leaf)]

\* child references with percent escapes
EscapedCatalog ==
    [plain |-> FALSE,
     nodes |-> (EmptyCode :> Node(TRUE, <<cAdot1, cAslash1, cB>>, TRUE)) @@
               (cAdot1 :> Node(TRUE, <<cB>>, TRUE)) @@
               (cAslash1 :> Leaf) @@ (cB :> Leaf)]

\* a root listing whose 'child' list is empty
EmptyListingCatalog ==
    [plain |-> TRUE,
     nodes |-> (EmptyCode :> Node(TRUE, <<>>, TRUE))]

\* the code S listed under two parents: root -> {P, Q}, P -> {S}, Q -> {S},
\* S -> {T}
SharedCatalog ==
    [plain |-> TRUE,
     nodes |-> (EmptyCode :> Node(TRUE, <<cP, cQ>>, TRUE)) @@
               (cP :> Node(TRUE, <<cS>>, TRUE)) @@
               (cQ :> Node(TRUE, <<cS>>, TRUE)) @@
               (cS :> Node(TRUE, <<cT>>, TRUE)) @@ (cT :> Leaf)]

Catalogs == {TreeCatalog, EndToEndCatalog, NoListingCatalog, EscapedCatalog,
             EmptyListingCatalog, SharedCatalog}

----------------------------------------------------------------------------
(* fetch_icd_data *)

\* The statement of the try block that raises for each network outcome of
\* one request, and the exception it raises
RaisedBy(net) ==
    CASE net = "ok" -> [step |-> "none", exc |-> "none"]
      [] net = "transport" -> [step |-> "get", exc |-> "ConnectionError"]
      [] net = "http_error" -> [step |-> "raise_for_status", exc |-> "HTTPError"]
      [] net = "malformed" -> [step |-> "json", exc |-> "JSONDecodeError"]

\* The exception classes of the requests package, all of them subclasses of
\* requests.RequestException (requests.exceptions.JSONDecodeError included)
RequestException == {"ConnectionError", "Timeout", "HTTPError", "JSONDecodeError"}

\* An except clause that names only the HTTP status error
CaughtByFetch_OnlyHTTPError == {"HTTPError"}

\* except requests.RequestException (line 97)
CaughtByFetch == RequestException

\* A try block that ends before the body is decoded
FetchTryBody_NoJson == {"get", "raise_for_status"}

\* The statements inside try (lines 94-96)
FetchTryBody == {"get", "raise_for_status", "json"}

\* The try block and its handler: the decoded body, None for a caught
\* exception, or the exception propagating to the caller
fetch_icd_data(net, body) ==
    LET r == RaisedBy(net) IN
    IF r.exc = "none" THEN [raised |-> FALSE, data |-> body]
    ELSE IF r.step \in FetchTryBody /\ r.exc \in CaughtByFetch
         THEN [raised |-> FALSE, data |-> None]
    ELSE [raised |-> TRUE, data |-> None]

\* The body the remote would send for a code that it knows
Served(code) == Body(catalog.nodes[code], catalog.plain)

\* The outcomes one GET can have: a code the remote does not know is a 404;
\* a known code is served, or fails in one of three ways
NetOutcomes(code) ==
    IF code \notin DOMAIN catalog.nodes THEN {"http_error"}
    ELSE {"ok"} \cup (IF faults < MaxFaults
                      THEN {"transport", "http_error", "malformed"} ELSE {})

NetFault(code, net) == IF code \in DOMAIN catalog.nodes /\ net # "ok" THEN 1 ELSE 0

BodyFor(code) == IF code \in DOMAIN catalog.nodes THEN Served(code) ELSE None

----------------------------------------------------------------------------
(* save_icd_data *)

\* str.replace on a sequence of characters
Replace(s, old, new) == [i \in 1..Len(s) |-> IF s[i] = old THEN new ELSE s[i]]

FilePrefix == <<"i", "c", "d", "1", "0", "_">>
FileSuffix == <<".", "j", "s", "o", "n">>

\* A file name in which only the dots are replaced
FileName_DotOnly(code) == FilePrefix \o Replace(code, ".", "_") \o FileSuffix

\* f'icd10_{code.replace(".", "_").replace("/", "_")}.json'
FileName(code) == FilePrefix \o Replace(Replace(code, ".", "_"), "/", "_") \o FileSuffix

\* The step of save_icd_data at which each filesystem outcome raises OSError
FailingStep(fs) ==
    CASE fs = "ok" -> "none"
      [] fs = "mkdir_fail" -> "makedirs"
      [] fs = "open_fail" -> "open"
      [] fs = "write_fail" -> "write"

\* A save whose handler covers nothing
SaveTryBody_None == {}

\* The statements inside try ... except IOError (lines 107-112); os.makedirs
\* (lines 103-104) is before the try
SaveTryBody == {"open", "write"}

Written(data) == [state |-> "written", data |-> data]
Truncated == [state |-> "truncated", data |-> None]

\* A file opened for appending: an existing file keeps its old content too
Put_Append(f, k, v) ==
    [x \in DOMAIN f \cup {k} |->
        IF x # k THEN f[x]
        ELSE IF k \in DOMAIN f THEN [state |-> "appended", data |-> v.data] ELSE v]

\* open(filename, 'w') and the write: f[k] set to v, k added to the domain
\* if absent
Put(f, k, v) == [x \in DOMAIN f \cup {k} |-> IF x = k THEN v ELSE f[x]]

\* save_icd_data(data, code, output_dir) under filesystem outcome fs:
\* whether an exception leaves the function, and the directory and files after
save_icd_data(data, code, fs, dir, fls) ==
    LET step == FailingStep(fs)
        name == FileName(code)
    IN [raised |-> step # "none" /\ step \notin SaveTryBody,
        saved  |-> step = "none",
        dir    |-> IF step = "makedirs" THEN dir ELSE TRUE,
        files  |-> CASE step = "none" -> Put(fls, name, Written(data))
                     [] step = "write" -> Put(fls, name, Truncated)
                     [] OTHER -> fls]

\* The outcomes the filesystem can have for one save: makedirs runs, and can
\* fail, only while the directory is missing
FsOutcomes ==
    {"ok"} \cup (IF faults < MaxFaults
                 THEN {"open_fail", "write_fail"} \cup
                      (IF dirExists THEN {} ELSE {"mkdir_fail"})
                 ELSE {})

----------------------------------------------------------------------------
(* process_icd_code *)

\* bool(data): None and the empty dict are false
Truthy(data) == data.kind = "dict" /\ (data.hasChild \/ data.other)

\* The walker with the save after the recursion
ProcessOrder_SaveLast == <<"fetch", "expand", "save", "throttle">>

\* The walker with the sleep placed before the recursion
ProcessOrder_PreOrder == <<"fetch", "save", "throttle", "expand">>

\* The statements of process_icd_code in program order: line 118, line 121,
\* lines 123-126, line 128
ProcessOrder == <<"fetch", "save", "expand", "throttle">>

\* The walker with the sleep inside `if data:`
IfBody_WithThrottle == {"save", "expand", "throttle"}

\* The walker with the save outside `if data:`
IfBody_ExpandOnly == {"expand"}

\* The statements inside `if data:` (lines 120-126)
IfBody == {"save", "expand"}

SetMin(S) == CHOOSE x \in S : \A y \in S : x <= y

\* The statement executed after statement p of a frame holding data; 0 when
\* the function returns
NextPos(p, data) ==
    LET later == {j \in (p + 1)..Len(ProcessOrder) :
                     ProcessOrder[j] \notin IfBody \/ Truthy(data)}
    IN IF later = {} THEN 0 ELSE SetMin(later)

Top == stack[Len(stack)]
Phase == ProcessOrder[Top.pos]
Walking == pc = "loop" /\ stack # <<>>

\* The top frame moves to its next statement, or returns to its caller
Advance(stk, data) ==
    LET top == stk[Len(stk)]
        np  == NextPos(top.pos, data)
    IN IF np = 0 THEN SubSeq(stk, 1, Len(stk) - 1)
       ELSE [stk EXCEPT ![Len(stk)] = [top EXCEPT !.pos = np, !.data = data]]

\* A new frame: process_icd_code(code, config) called from frame par
Frame(code, inv) == [code |-> code, inv |-> inv, data |-> None, idx |-> 1, pos |-> 1]

Event(op, code, inv, ok, kind, data) ==
    [op |-> op, code |-> code, inv |-> inv, ok |-> ok, kind |-> kind, data |-> data]

\* data = fetch_icd_data(code, config.token); if data: (lines 116-120)
Fetch ==
    /\ Walking /\ Phase = "fetch"
    /\ \E net \in NetOutcomes(Top.code) :
          LET r == fetch_icd_data(net, BodyFor(Top.code)) IN
          /\ faults' = faults + NetFault(Top.code, net)
          /\ IF r.raised
             THEN /\ pc' = "crashed" /\ crashOp' = "fetch"
                  /\ UNCHANGED <<stack, events>>
             ELSE /\ events' = Append(events,
                        Event("fetch", Top.code, Top.inv, net = "ok", net, r.data))
                  /\ stack' = Advance(stack, r.data)
                  /\ UNCHANGED <<pc, crashOp>>
    /\ UNCHANGED startVars
    /\ UNCHANGED <<catalog, rootCodes, rootIdx, dirExists, files, invs>>

\* save_icd_data(data, code, config.output_dir) (line 121)
Save ==
    /\ Walking /\ Phase = "save"
    /\ \E fs \in FsOutcomes :
          LET r == save_icd_data(Top.data, Top.code, fs, dirExists, files) IN
          /\ faults' = faults + (IF fs = "ok" THEN 0 ELSE 1)
          /\ dirExists' = r.dir
          /\ files' = r.files
          /\ events' = Append(events,
                 Event("save", Top.code, Top.inv, r.saved, fs, Top.data))
          /\ IF r.raised
             THEN /\ pc' = "crashed" /\ crashOp' = "save"
                  /\ UNCHANGED stack
             ELSE /\ stack' = Advance(stack, Top.data)
                  /\ UNCHANGED <<pc, crashOp>>
    /\ UNCHANGED startVars
    /\ UNCHANGED <<catalog, rootCodes, rootIdx, invs>>

\* for child_url in data['child']: process_icd_code(child_code, config)
\* (lines 124-126): the next child is decoded and the walker called on it
\* A loop that walks the list from its end
ChildUrls_Reversed(data) ==
    [i \in 1..Len(data.child) |-> data.child[Len(data.child) + 1 - i]]

\* A loop that passes over the references to codes the walker was already
\* called on
ChildUrls_Unvisited(data) ==
    LET Fresh(u) == ~\E m \in 1..Len(invs) : /\ invs[m].code = ChildCode(u)
                                             /\ invs[m].par # Top.inv
    IN SelectSeq(data.child, Fresh)

\* The list `for child_url in data['child']` iterates (line 124): every
\* reference of the payload, in its order
ChildUrls(data) == data.child

\* A new call of process_icd_code exceeds the recursion limit
TooDeep == Len(stack) >= MaxDepth

CallChild ==
    /\ Walking /\ Phase = "expand"
    /\ Top.data.kind = "dict" /\ Top.data.hasChild
    /\ Top.idx <= Len(ChildUrls(Top.data))
    /\ LET child_code == ChildCode(ChildUrls(Top.data)[Top.idx])
           inv == Len(invs) + 1
       IN IF TooDeep
          THEN /\ pc' = "crashed" /\ crashOp' = "recursion"
               /\ UNCHANGED <<stack, invs>>
          ELSE /\ invs' = Append(invs, [code |-> child_code, par |-> Top.inv,
                                        pos |-> Top.idx])
               /\ stack' = Append([stack EXCEPT ![Len(stack)].idx = Top.idx + 1],
                                  Frame(child_code, inv))
               /\ UNCHANGED <<pc, crashOp>>
    /\ UNCHANGED startVars
    /\ UNCHANGED <<catalog, rootCodes, rootIdx, dirExists, files, events, faults>>

\* if 'child' in data: is false, or the for loop is exhausted (lines 123-124);
\* `in` applied to None raises TypeError
EndChildren ==
    /\ Walking /\ Phase = "expand"
    /\ ~(Top.data.kind = "dict" /\ Top.data.hasChild
           /\ Top.idx <= Len(ChildUrls(Top.data)))
    /\ IF Top.data.kind = "none"
       THEN /\ pc' = "crashed" /\ crashOp' = "expand"
            /\ UNCHANGED stack
       ELSE /\ stack' = Advance(stack, Top.data)
            /\ UNCHANGED <<pc, crashOp>>
    /\ UNCHANGED startVars
    /\ UNCHANGED <<catalog, rootCodes, rootIdx, dirExists, files, events, invs, faults>>

\* time.sleep(config.delay) (line 128)
Throttle ==
    /\ Walking /\ Phase = "throttle"
    /\ events' = Append(events, Event("wait", Top.code, Top.inv, TRUE, "sleep", None))
    /\ stack' = Advance(stack, Top.data)
    /\ UNCHANGED startVars
    /\ UNCHANGED <<catalog, pc, rootCodes, rootIdx, dirExists, files, invs, faults, crashOp>>

----------------------------------------------------------------------------
(* get_root_codes and main *)

\* A fallback list that lost its order
DefaultRootCodes_Swapped ==
    << <<"I", "I">>, <<"I">>, <<"I", "I", "I">>, <<"I", "V">>, <<"V">>,
       <<"V", "I">>, <<"V", "I", "I">>, <<"V", "I", "I", "I">>, <<"I", "X">>,
       <<"X">>, <<"X", "I">>, <<"X", "I", "I">>, <<"X", "I", "I", "I">>,
       <<"X", "I", "V">>, <<"X", "V">>, <<"X", "V", "I">>,
       <<"X", "V", "I", "I">>, <<"X", "V", "I", "I", "I">>, <<"X", "I", "X">>,
       <<"X", "X">>, <<"X", "X", "I">>, <<"X", "X", "I", "I">> >>

\* The list of line 137
DefaultRootCodes ==
    << <<"I">>, <<"I", "I">>, <<"I", "I", "I">>, <<"I", "V">>, <<"V">>,
       <<"V", "I">>, <<"V", "I", "I">>, <<"V", "I", "I", "I">>, <<"I", "X">>,
       <<"X">>, <<"X", "I">>, <<"X", "I", "I">>, <<"X", "I", "I", "I">>,
       <<"X", "I", "V">>, <<"X", "V">>, <<"X", "V", "I">>,
       <<"X", "V", "I", "I">>, <<"X", "V", "I", "I", "I">>, <<"X", "I", "X">>,
       <<"X", "X">>, <<"X", "X", "I">>, <<"X", "X", "I", "I">> >>

\* The value get_root_codes returns for root_data (lines 133-137)
RootCodesFrom(root_data) ==
    IF root_data.kind = "dict" /\ root_data.hasChild
    THEN DecodeAll(root_data.child)
    ELSE DefaultRootCodes

\* root_codes = get_root_codes(config.token) (lines 131-137, 151)
GetRootCodes ==
    /\ pc = "get_root_codes"
    /\ \E net \in NetOutcomes(EmptyCode) :
          LET r == fetch_icd_data(net, BodyFor(EmptyCode)) IN
          /\ faults' = faults + NetFault(EmptyCode, net)
          /\ IF r.raised
             THEN /\ pc' = "crashed" /\ crashOp' = "fetch"
                  /\ UNCHANGED <<rootCodes, events>>
             ELSE /\ events' = Append(events,
                        Event("fetch", EmptyCode, 0, net = "ok", net, r.data))
                  /\ rootCodes' = RootCodesFrom(r.data)
                  /\ pc' = "loop"
                  /\ crashOp' = crashOp
    /\ UNCHANGED startVars
    /\ UNCHANGED <<catalog, rootIdx, stack, dirExists, files, invs>>

\* for code in root_codes: process_icd_code(code, config) (lines 154-155)
CallRoot ==
    /\ pc = "loop" /\ stack = <<>>
    /\ rootIdx <= Len(rootCodes)
    /\ invs' = Append(invs, [code |-> rootCodes[rootIdx], par |-> 0, pos |-> rootIdx])
    /\ stack' = <<Frame(rootCodes[rootIdx], Len(invs) + 1)>>
    /\ rootIdx' = rootIdx + 1
    /\ UNCHANGED startVars
    /\ UNCHANGED <<catalog, pc, rootCodes, dirExists, files, events, faults, crashOp>>

\* the loop over root_codes is exhausted (line 157)
Finish ==
    /\ pc = "loop" /\ stack = <<>>
    /\ rootIdx > Len(rootCodes)
    /\ pc' = "done"
    /\ UNCHANGED startVars
    /\ UNCHANGED <<catalog, rootCodes, rootIdx, stack, dirExists, files, events,
                   invs, faults, crashOp>>

----------------------------------------------------------------------------
(* load_config and get_token_from_icd_api *)

\* args.token when no --token was given and no default was set
NoToken == "<None>"

\* A test that lets the empty string pass
Falsy_NoneOnly(t) == t = NoToken

\* `not t` for a token: None and the empty string
Falsy(t) == t \in {NoToken, ""}

\* The [DEFAULT] section of the config file: whether --config-file was given,
\* its token entry, and whether it has client_id and client_secret
ConfigFile(given, tok, creds) == [given |-> given, token |-> tok, creds |-> creds]
NoFile == ConfigFile(FALSE, NoToken, FALSE)
ConfigFiles ==
    {NoFile} \cup {ConfigFile(TRUE, t, c) : t \in {NoToken, "", "tok"}, c \in BOOLEAN}

\* --token on the command line: absent, empty, or a token
CliTokens == {NoToken, "", "tok"}

\* The outcomes of the token-exchange POST
Exchanges == {"ok", "denied", "transport", "no_field"}

\* get_token_from_icd_api (lines 66-81): the access token of an ok response,
\* None for a response that is not ok; requests.post raising, or an ok
\* response without 'access_token', leaves the function as an exception
get_token_from_icd_api(xch) ==
    CASE xch = "ok" -> [raised |-> FALSE, token |-> "xtok"]
      [] xch = "denied" -> [raised |-> FALSE, token |-> NoToken]
      [] xch = "transport" -> [raised |-> TRUE, token |-> NoToken]
      [] xch = "no_field" -> [raised |-> TRUE, token |-> NoToken]

\* load_config (lines 41-63) for a command line, a config file and the
\* outcome the token exchange has if it is made: whether it raises, the
\* token of the returned args, and the number of POSTs sent
load_config(cli, file, xch) ==
    LET exchange == file.given /\ Falsy(file.token)
        keyError == exchange /\ ~file.creds
        posted == exchange /\ ~keyError
        x == get_token_from_icd_api(xch)
        fileToken == IF exchange THEN x.token ELSE file.token
        argsToken == IF cli # NoToken THEN cli
                     ELSE IF file.given THEN fileToken ELSE NoToken
        aborted == keyError \/ (posted /\ x.raised)
    IN [raised |-> aborted \/ Falsy(argsToken),
        token  |-> IF aborted THEN NoToken ELSE argsToken,
        posts  |-> IF posted THEN 1 ELSE 0]

\* cfgSeen of a load_config that returned
NoConfig == [cli |-> NoToken, file |-> NoFile, xch |-> "ok"]

\* config = load_config() (line 141)
LoadConfig ==
    /\ pc = "load_config"
    /\ \E cli \in CliTokens, file \in ConfigFiles, xch \in Exchanges :
          LET r == load_config(cli, file, xch) IN
          /\ token' = r.token
          /\ posts' = r.posts
          /\ cfgSeen' = IF r.raised THEN [cli |-> cli, file |-> file, xch |-> xch]
                        ELSE NoConfig
          /\ pc' = IF r.raised THEN "config_error" ELSE "get_root_codes"
    /\ UNCHANGED <<catalog, rootCodes, rootIdx, stack, dirExists, files, events,
                   invs, faults, crashOp, run, prevEvents, prevFiles>>

----------------------------------------------------------------------------
(* The script executed again on the same output_dir *)

\* At most this many executions of the script one after the other
MaxRuns == 2

\* python icd_api_request.py once more, after an execution that finished:
\* the same token, the same remote, the directory as it was left
Restart ==
    /\ pc = "done" /\ run < MaxRuns
    /\ run' = run + 1
    /\ prevEvents' = events
    /\ prevFiles' = files
    /\ pc' = "get_root_codes"
    /\ rootCodes' = <<>>
    /\ rootIdx' = 1
    /\ events' = <<>>
    /\ invs' = <<>>
    /\ UNCHANGED <<catalog, stack, dirExists, files, faults, crashOp, token, posts,
                   cfgSeen>>

----------------------------------------------------------------------------
(* Specifications *)

\* The state of main after load_config returned a token
Started(cats) ==
    /\ catalog \in cats
    /\ rootCodes = <<>>
    /\ rootIdx = 1
    /\ stack = <<>>
    /\ dirExists \in BOOLEAN
    /\ files = <<>>
    /\ events = <<>>
    /\ invs = <<>>
    /\ faults = 0
    /\ crashOp = "none"
    /\ posts = 0
    /\ cfgSeen = NoConfig
    /\ run = 1
    /\ prevEvents = <<>>
    /\ prevFiles = <<>>

Init == Started(Catalogs) /\ pc = "get_root_codes" /\ token = "tok"

Next ==
    \/ GetRootCodes
    \/ CallRoot
    \/ Fetch
    \/ Save
    \/ CallChild
    \/ EndChildren
    \/ Throttle
    \/ Finish

Spec == Init /\ [][Next]_vars

\* main runs without interruption: it takes its next step whenever it has one
FairSpec == Spec /\ WF_vars(Next)

\* The script from its first statement, load_config included
InitConfig == Started({EndToEndCatalog, TreeCatalog}) /\ pc = "load_config" /\ token = NoToken
NextConfig == LoadConfig \/ Next
SpecConfig == InitConfig /\ [][NextConfig]_vars

\* The script executed up to MaxRuns times
InitTwice ==
    /\ Started({EndToEndCatalog, EscapedCatalog, SharedCatalog})
    /\ pc = "get_root_codes" /\ token = "tok"
NextTwice == Restart \/ Next
SpecTwice == InitTwice /\ [][NextTwice]_vars

\* The longest code of CodeCatalogs
MaxCodeLen == 2

CodeAlphabet == {"A", ".", "/", "_"}

RECURSIVE CodesOfLen(_)
CodesOfLen(n) ==
    IF n = 0 THEN {<<>>}
    ELSE {Append(c, a) : c \in CodesOfLen(n - 1), a \in CodeAlphabet}

\* every code of at most MaxCodeLen characters, the empty code included
BoundedCodes == UNION {CodesOfLen(n) : n \in 0..MaxCodeLen}

\* a root listing with the single child c, which lists B
CodeCatalog(c, plain) ==
    [plain |-> plain,
     nodes |-> (EmptyCode :> Node(TRUE, <<c>>, TRUE)) @@
               (c :> Node(TRUE, <<cB>>, TRUE)) @@ (cB :> Leaf)]

CodeCatalogs == {CodeCatalog(c, plain) : c \in BoundedCodes, plain \in BOOLEAN}

\* The script on a remote whose root lists one arbitrary code
InitCodes == Started(CodeCatalogs) /\ pc = "get_root_codes" /\ token = "tok"
SpecCodes == InitCodes /\ [][Next]_vars

----------------------------------------------------------------------------
(* Vocabulary of the properties *)

EvIdx == 1..Len(events)
InvIdx == 1..Len(invs)

IsFetch(i) == events[i].op = "fetch"
IsSave(i) == events[i].op = "save"
IsWait(i) == events[i].op = "wait"
IsWaitOf(i, n) == IsWait(i) /\ events[i].inv = n

\* invocation m was called, directly or not, from invocation n
RECURSIVE Under(_, _)
Under(m, n) ==
    LET p == invs[m].par IN p # 0 /\ (p = n \/ Under(p, n))

\* the codes of the invocations called directly from n, in call order
RECURSIVE CalledFrom(_, _)
CalledFrom(n, upto) ==
    IF upto = 0 THEN <<>>
    ELSE IF invs[upto].par = n THEN Append(CalledFrom(n, upto - 1), invs[upto].code)
    ELSE CalledFrom(n, upto - 1)

\* the codes the sleeps were made for, in order
RECURSIVE WaitCodes(_)
WaitCodes(upto) ==
    IF upto = 0 THEN <<>>
    ELSE IF IsWait(upto) THEN Append(WaitCodes(upto - 1), events[upto].code)
    ELSE WaitCodes(upto - 1)

AllFetchesOk == \A i \in EvIdx : IsFetch(i) => events[i].ok

\* the codes the remote lists under a code (the catalog's own record, not
\* what the walker decoded)
KidsOf(code) ==
    IF code \in DOMAIN catalog.nodes /\ catalog.nodes[code].hasChild
    THEN catalog.nodes[code].kids ELSE <<>>

\* the list invocation n was called from: root_codes, or the children the
\* remote lists under the caller's code
SiblingsOf(n) ==
    IF invs[n].par = 0 THEN rootCodes ELSE KidsOf(invs[invs[n].par].code)

----------------------------------------------------------------------------
(* C1 *)

\* C1: post-order throttling. When the sleep of an invocation happens, every
\* child its payload lists has been called, and every fetch, save and sleep
\* of every invocation below it has already happened and each of them has
\* slept; on the tree root -> {A, B}, A -> {A1, A2} with every fetch
\* succeeding, a finished run slept for A1, A2, A, B, root in this order.
C1_PostOrderThrottle ==
    /\ \A i \in EvIdx : IsWait(i) =>
          LET n == events[i].inv IN
          /\ \A j \in EvIdx :
                (events[j].inv # 0 /\ Under(events[j].inv, n)) => j < i
          /\ \A m \in InvIdx :
                Under(m, n) => \E j \in 1..(i - 1) : IsWaitOf(j, m)
          /\ (\E j \in 1..(i - 1) : IsFetch(j) /\ events[j].inv = n /\ events[j].ok
                                    /\ Truthy(events[j].data))
                => CalledFrom(n, Len(invs)) = KidsOf(events[i].code)
    /\ (catalog = TreeCatalog /\ pc = "done" /\ AllFetchesOk)
          => WaitCodes(Len(events)) = <<cA1, cA2, cA, cB, cR>>

C1_Witness ==
    /\ catalog = TreeCatalog /\ pc = "done" /\ AllFetchesOk
    /\ WaitCodes(Len(events)) = <<cA1, cA2, cA, cB, cR>>

----------------------------------------------------------------------------
(* C2 *)

\* C2: between any two consecutive fetches (the root-listing fetch and a
\* parent's fetch followed by its first child's fetch included) there is at
\* least one sleep.
C2_WaitBetweenFetches ==
    \A i, j \in EvIdx :
        (i < j /\ IsFetch(i) /\ IsFetch(j)) => \E k \in (i + 1)..(j - 1) : IsWait(k)

----------------------------------------------------------------------------
(* C3 *)

\* C3: end-to-end scenario. With the root listing {"child": [A, B]},
\* A = {"child": [A.1]}, A.1 = {} and B = {}, and no failure, the finished
\* run has written exactly the files of A, A.1 and B.
C3_EndToEndFiles ==
    (catalog = EndToEndCatalog /\ pc = "done" /\ faults = 0)
        => DOMAIN files = {FileName(cA), FileName(cAdot1), FileName(cB)}

----------------------------------------------------------------------------
(* C4 *)

\* C4: fetch failure isolation. A failed fetch of a node never ends the
\* process; the next thing the walker does is the node's own sleep, and
\* after it the fetch of the node's next sibling (the code the remote lists
\* next under the parent, or the next root code), or the parent's sleep when
\* the node was the last child; a finished run has called the walker on
\* every root code whatever failed.
C4_FetchFailureIsolation ==
    /\ crashOp # "fetch"
    /\ pc = "done" => CalledFrom(0, Len(invs)) = rootCodes
    /\ \A i \in EvIdx : (IsFetch(i) /\ ~events[i].ok /\ events[i].inv # 0) =>
          LET n == events[i].inv
              sibs == SiblingsOf(n)
              pos == invs[n].pos
          IN /\ (i + 1 <= Len(events)) => IsWaitOf(i + 1, n)
             /\ (i + 2 <= Len(events)) =>
                   IF pos < Len(sibs)
                   THEN /\ IsFetch(i + 2)
                        /\ events[i + 2].code = sibs[pos + 1]
                        /\ invs[events[i + 2].inv].par = invs[n].par
                        /\ invs[events[i + 2].inv].pos = pos + 1
                   ELSE invs[n].par # 0 /\ IsWaitOf(i + 2, invs[n].par)
             /\ (pc = "done" /\ pos < Len(sibs)) => i + 2 <= Len(events)

\* B fails under TreeCatalog's R after A and its subtree were fetched and
\* saved; R still sleeps and the run finishes
C4_Witness ==
    /\ catalog = TreeCatalog /\ pc = "done"
    /\ \E i \in EvIdx : IsFetch(i) /\ ~events[i].ok /\ events[i].code = cB
    /\ \E i \in EvIdx : IsSave(i) /\ events[i].ok /\ events[i].code = cA2
    /\ \E i, j \in EvIdx :
          /\ IsFetch(i) /\ ~events[i].ok /\ events[i].code = cA1
          /\ j = i + 2 /\ IsFetch(j) /\ events[j].ok /\ events[j].code = cA2

----------------------------------------------------------------------------
(* C5 *)

\* C5: a failed fetch is terminal for its branch. An invocation whose fetch
\* gave no data (None, and likewise the empty object) makes no save, calls
\* the walker on no child, and its next step is its sleep.
C5_FailedFetchTerminal ==
    \A i \in EvIdx : (IsFetch(i) /\ events[i].inv # 0 /\ ~Truthy(events[i].data)) =>
        LET n == events[i].inv IN
        /\ \A j \in EvIdx : ~(IsSave(j) /\ events[j].inv = n)
        /\ \A m \in InvIdx : invs[m].par # n
        /\ \A j \in EvIdx : (IsFetch(j) /\ j # i) => events[j].inv # n
        /\ (i + 1 <= Len(events)) => IsWaitOf(i + 1, n)

\* the fetch of A, which has children in the catalog, failed: the run
\* finished with no save of A and no fetch of A1 or A2
C5_Witness ==
    /\ catalog = TreeCatalog /\ pc = "done"
    /\ \E i \in EvIdx : /\ IsFetch(i) /\ events[i].code = cA /\ events[i].data = None
                        /\ IsWaitOf(i + 1, events[i].inv)
    /\ \A j \in EvIdx : events[j].code \notin {cA1, cA2}

----------------------------------------------------------------------------
(* C6 *)

WriteFailed(i) == IsSave(i) /\ events[i].kind \in {"open_fail", "write_fail"}

----------------------------------------------------------------------------
(* C7 *)

\* C7: no I/O error of save_icd_data, whether raised while creating
\* output_dir or while opening or writing the file, leaves save_icd_data:
\* the process never ends in a save.
C7_SaveErrorsCaught == crashOp # "save"

----------------------------------------------------------------------------
(* C8 *)

FetchFailed(i, kind) == IsFetch(i) /\ events[i].kind = kind

\* C8: fetch_icd_data never raises. A transport error, a non-success status
\* and an undecodable body each make it return None, for the root listing
\* and for every code; a served body is returned as it is.
C8_FetchNeverRaises ==
    /\ crashOp # "fetch"
    /\ \A i \in EvIdx : IsFetch(i) =>
          IF events[i].kind = "ok"
          THEN /\ events[i].data.kind = "dict"
               /\ events[i].data.hasChild = catalog.nodes[events[i].code].hasChild
               /\ Len(events[i].data.child) = Len(KidsOf(events[i].code))
          ELSE events[i].data = None
    /\ pc = "get_root_codes" => events = <<>>

\* one run saw all three kinds of failure and finished
C8_Witness ==
    /\ pc = "done"
    /\ \E i \in EvIdx : FetchFailed(i, "transport") /\ events[i].data = None
    /\ \E i \in EvIdx : FetchFailed(i, "http_error") /\ events[i].data = None
    /\ \E i \in EvIdx : FetchFailed(i, "malformed") /\ events[i].data = None

----------------------------------------------------------------------------
(* C9 *)

\* C9: run to completion. Whatever fetches and saves fail, the process is
\* never stopped before the end of main, and at the end of main the walker
\* has been called on every code of root_codes, in order.
C9_RunToCompletion ==
    /\ pc = "done" \/ ENABLED Next
    /\ pc = "done" => CalledFrom(0, Len(invs)) = rootCodes

----------------------------------------------------------------------------
(* C10 *)

RomanUnits ==
    << <<"I">>, <<"I", "I">>, <<"I", "I", "I">>, <<"I", "V">>, <<"V">>,
       <<"V", "I">>, <<"V", "I", "I">>, <<"V", "I", "I", "I">>, <<"I", "X">> >>

\* the Roman numeral of n, for n below 40
Roman(n) ==
    [i \in 1..(n \div 10) |-> "X"] \o (IF n % 10 = 0 THEN <<>> ELSE RomanUnits[n % 10])

RootListed == catalog.nodes[EmptyCode].hasChild

\* C10: root fallback. Once get_root_codes has returned: if the root-listing
\* fetch failed or its payload has no child list, root_codes is the 22
\* Roman numerals I .. XXII in ascending order; otherwise it is the codes
\* the remote lists under the root, in listing order.
C10_RootFallback ==
    events # <<>> =>
        IF events[1].ok /\ RootListed
        THEN rootCodes = catalog.nodes[EmptyCode].kids
        ELSE /\ Len(rootCodes) = 22
             /\ \A i \in 1..Len(rootCodes) : rootCodes[i] = Roman(i)

\* the root-listing fetch failed and the run walked I .. XXII to the end
C10_Witness ==
    /\ pc = "done" /\ RootListed /\ ~events[1].ok
    /\ CalledFrom(0, Len(invs)) = [i \in 1..22 |-> Roman(i)]

----------------------------------------------------------------------------
(* C11 *)

\* C11: the crawl always has a non-empty starting set. Whatever the
\* root-listing fetch gave (a failure, a payload without a child list, a
\* child list of any length), the root_codes get_root_codes returned is not
\* empty.
C11_NonEmptyRoots == events # <<>> => rootCodes # <<>>

----------------------------------------------------------------------------
(* C12 *)

\* C12: the root listing is never persisted. For every catalog and every
\* child reference, no save is made for the empty code.
C12_RootNeverSaved == \A i \in EvIdx : IsSave(i) => events[i].code # EmptyCode

----------------------------------------------------------------------------
(* C13 *)

SavesAllOk == \A i \in EvIdx : IsSave(i) => events[i].ok

\* the codes the walker fetched successfully
FetchedCodes == {events[i].code : i \in {j \in EvIdx : IsFetch(j) /\ events[j].ok
                                                       /\ events[j].inv # 0}}

\* C13: one file per visited node. At the end of a run in which every save
\* succeeded (and every fetched payload was a non-empty object), output_dir
\* holds as many files as there are distinct successfully fetched codes: no
\* two distinct codes share a file.
C13_OneFilePerNode ==
    (/\ pc = "done" /\ SavesAllOk
     /\ \A i \in EvIdx : (IsFetch(i) /\ events[i].ok) => Truthy(events[i].data))
        => Cardinality(DOMAIN files) = Cardinality(FetchedCodes)

----------------------------------------------------------------------------
(* C14 *)

\* name is icd10_<k>.json where k is code with each '.' and each '/'
\* replaced by '_' and every other character unchanged in its place
IsSanitized(name, code) ==
    /\ Len(name) = Len(code) + 11
    /\ SubSeq(name, 1, 6) = <<"i", "c", "d", "1", "0", "_">>
    /\ SubSeq(name, Len(name) - 4, Len(name)) = <<".", "j", "s", "o", "n">>
    /\ \A j \in 1..Len(code) :
          name[6 + j] = (IF code[j] = "." \/ code[j] = "/" THEN "_" ELSE code[j])

\* C14: file-name sanitization. The file of every save that succeeded, or
\* failed while writing, is named icd10_<k>.json with k the code in which
\* every '.' and every '/' is replaced by '_' and nothing else is changed;
\* output_dir holds no file of any other name.
C14_FileNameSanitized ==
    /\ \A i \in EvIdx : (IsSave(i) /\ events[i].kind \in {"ok", "write_fail"}) =>
          \E name \in DOMAIN files : IsSanitized(name, events[i].code)
    /\ \A name \in DOMAIN files :
          \E i \in EvIdx : IsSave(i) /\ IsSanitized(name, events[i].code)

\* the code "./" was saved to icd10___.json
C14_Witness ==
    /\ pc = "done"
    /\ \E i \in EvIdx : IsSave(i) /\ events[i].ok /\ events[i].code = <<".", "/">>
    /\ <<"i", "c", "d", "1", "0", "_", "_", "_", ".", "j", "s", "o", "n">> \in DOMAIN files

----------------------------------------------------------------------------
(* C15 *)

\* C15: idempotence. When the script is executed again on the same
\* output_dir and the execution finishes having met the same fetch and save
\* outcomes as the one before it, output_dir holds the same files with the
\* same contents as the earlier execution left: saves overwrite.
C15_Idempotent ==
    (run > 1 /\ pc = "done" /\ events = prevEvents) => files = prevFiles

\* a second execution that repeated the first, which wrote two files or more
C15_Witness ==
    /\ run = 2 /\ pc = "done" /\ events = prevEvents
    /\ Cardinality(DOMAIN files) >= 2
    /\ \A name \in DOMAIN files : files[name].state = "written"

----------------------------------------------------------------------------
(* C16 *)

\* C16 as claimed: when load_config fails for want of a token, no network
\* request at all (token exchange or catalog fetch) was made before.
C16_NoNetworkBeforeConfigError ==
    pc = "config_error" => (posts = 0 /\ events = <<>>)

\* C16 as amended: whenever load_config ends with no usable token the
\* process fails there, and no catalog fetch was made before; a token
\* exchange was requested before the failure, once, exactly when the config
\* file has client_id and client_secret and no token - in every other case
\* no network request was made.
C16_NoFetchBeforeConfigError ==
    /\ (pc # "load_config" /\ token \in {NoToken, ""})
          => (pc = "config_error" /\ events = <<>>)
    /\ pc = "config_error" =>
          /\ events = <<>> /\ invs = <<>>
          /\ posts \in {0, 1}
          /\ posts = 1 <=> (/\ cfgSeen.file.given
                            /\ cfgSeen.file.token \in {NoToken, ""}
                            /\ cfgSeen.file.creds)

\* no --token, a config file with client credentials only, and the token
\* endpoint refused them
C16_Witness ==
    /\ pc = "config_error" /\ posts = 1 /\ events = <<>>
    /\ cfgSeen.cli = NoToken /\ cfgSeen.file.creds /\ cfgSeen.xch = "denied"

----------------------------------------------------------------------------
(* C17 *)

EventsOf(n) == {j \in EvIdx : events[j].inv = n}
EventsIn(n) == {j \in EvIdx : events[j].inv = n
                              \/ (events[j].inv # 0 /\ Under(events[j].inv, n))}
Waited(n) == \E j \in EvIdx : IsWaitOf(j, n)

\* C17: depth-first sibling order. The i-th call made from an invocation is
\* for the i-th code the remote lists under it (from main: the i-th root
\* code); when the call for a child is made, each earlier child has slept,
\* and every fetch, save and sleep in the subtree of an earlier child
\* precedes everything done for a later one; the fetch of a node precedes
\* every fetch below it.
C17_DepthFirstOrder ==
    /\ \A m \in InvIdx :
          /\ invs[m].pos <= Len(SiblingsOf(m))
          /\ invs[m].code = SiblingsOf(m)[invs[m].pos]
          /\ invs[m].pos > 1 =>
                \E k \in 1..(m - 1) : /\ invs[k].par = invs[m].par
                                      /\ invs[k].pos = invs[m].pos - 1
    /\ \A m1, m2 \in InvIdx :
          (invs[m1].par = invs[m2].par /\ invs[m1].pos < invs[m2].pos) =>
             /\ m1 < m2
             /\ Waited(m1)
             /\ \A j \in EventsIn(m1), k \in EventsIn(m2) : j < k
    /\ \A m, n \in InvIdx :
          Under(m, n) =>
             \E f \in EventsOf(n) : IsFetch(f) /\ \A j \in EventsOf(m) : f < j

\* the fetches of a finished run on the tree: R, A, A1, A2, B
C17_Witness ==
    /\ catalog = TreeCatalog /\ pc = "done" /\ AllFetchesOk
    /\ [m \in InvIdx |-> invs[m].code] = <<cR, cA, cA1, cA2, cB>>
    /\ \A m \in InvIdx : \E j \in EventsOf(m) : IsFetch(j)

----------------------------------------------------------------------------
(* C18 *)

OnStack(n) == \E k \in 1..Len(stack) : stack[k].inv = n
FetchesOf(n) == {j \in EventsOf(n) : IsFetch(j)}
WaitsOf(n) == {j \in EventsOf(n) : IsWait(j)}

\* C18: throttle once per node. An invocation of the walker never fetches or
\* sleeps twice; one that returned has made exactly one fetch and, after it,
\* exactly one sleep, whether its fetch or its save failed or not; at the
\* end of a run the sleeps are as many as the walker's fetches.
C18_OneWaitPerNode ==
    /\ \A n \in InvIdx :
          /\ Cardinality(FetchesOf(n)) <= 1
          /\ Cardinality(WaitsOf(n)) <= 1
          /\ \A w \in WaitsOf(n) : \E f \in FetchesOf(n) : f < w
          /\ ~OnStack(n) => (Cardinality(FetchesOf(n)) = 1 /\ Cardinality(WaitsOf(n)) = 1)
    /\ pc = "done" =>
          /\ Cardinality({j \in EvIdx : IsWait(j)}) = Len(invs)
          /\ Cardinality({j \in EvIdx : IsFetch(j) /\ events[j].inv # 0}) = Len(invs)

\* a finished run in which one fetch failed and one write failed
C18_Witness ==
    /\ catalog = TreeCatalog /\ pc = "done" /\ Len(invs) >= 3
    /\ \E i \in EvIdx : IsFetch(i) /\ events[i].inv # 0 /\ ~events[i].ok
    /\ \E i \in EvIdx : WriteFailed(i)
    /\ Cardinality({j \in EvIdx : IsWait(j)}) = Len(invs)

----------------------------------------------------------------------------
(* C19 *)

SavesOf(n) == {j \in EventsOf(n) : IsSave(j)}
FetchesOfCode(c) == {j \in EvIdx : IsFetch(j) /\ events[j].code = c}
SavesOfCode(c) == {j \in EvIdx : IsSave(j) /\ events[j].code = c}

\* C19: no visited-set. Every invocation that returned made its own fetch,
\* and on a non-empty payload its own save and the calls for all the listed
\* children, whatever was visited before; with S listed under both P and Q
\* and S listing T, a finished run without failure fetched and saved S
\* twice, once under each parent, and T twice, leaving one file for S.
C19_NoVisitedSet ==
    /\ \A n \in InvIdx : Waited(n) =>
          /\ FetchesOf(n) # {}
          /\ \A f \in FetchesOf(n) : Truthy(events[f].data) =>
                /\ SavesOf(n) # {}
                /\ CalledFrom(n, Len(invs)) = KidsOf(invs[n].code)
    /\ (catalog = SharedCatalog /\ pc = "done" /\ faults = 0) =>
          /\ Cardinality(FetchesOfCode(cS)) = 2
          /\ Cardinality(SavesOfCode(cS)) = 2
          /\ Cardinality(FetchesOfCode(cT)) = 2
          /\ {invs[invs[events[j].inv].par].code : j \in FetchesOfCode(cS)} = {cP, cQ}
          /\ Cardinality({name \in DOMAIN files : IsSanitized(name, cS)}) = 1

C19_Witness ==
    /\ catalog = SharedCatalog /\ pc = "done" /\ faults = 0
    /\ Cardinality(SavesOfCode(cS)) = 2
    /\ Cardinality(SavesOfCode(cT)) = 2

----------------------------------------------------------------------------
(* C20 *)

\* C20: persist follows fetch and precedes expand. Every save comes right
\* after the successful fetch of the same code by the same invocation, and
\* every fetch of a non-empty payload is followed at once by its save; the
\* record handed to the save, and written when the save succeeds, is the
\* payload the remote served, unchanged; every fetch of a child comes after
\* the save.
C20_PersistAfterFetch ==
    /\ \A i \in EvIdx : IsSave(i) =>
          /\ i > 1 /\ IsFetch(i - 1) /\ events[i - 1].ok
          /\ events[i - 1].inv = events[i].inv
          /\ events[i - 1].code = events[i].code
          /\ events[i].data = events[i - 1].data
          /\ events[i].data = Served(events[i].code)
          /\ (events[i].ok /\ i = Len(events)) =>
                \E name \in DOMAIN files :
                    /\ IsSanitized(name, events[i].code)
                    /\ files[name] = [state |-> "written",
                                      data |-> Served(events[i].code)]
          /\ \A j \in EvIdx :
                (events[j].inv # 0 /\ invs[events[j].inv].par = events[i].inv) => i < j
    /\ \A i \in EvIdx :
          (IsFetch(i) /\ events[i].inv # 0 /\ Truthy(events[i].data) /\ i < Len(events))
             => (IsSave(i + 1) /\ events[i + 1].inv = events[i].inv)

\* A was fetched, saved next, and A1 was fetched after the save
C20_Witness ==
    /\ catalog = TreeCatalog /\ pc = "done"
    /\ \E i \in EvIdx :
          /\ IsFetch(i) /\ events[i].code = cA /\ events[i].ok
          /\ IsSave(i + 1) /\ events[i + 1].code = cA /\ events[i + 1].ok
          /\ IsFetch(i + 2) /\ events[i + 2].code = cA1

====
